---- MODULE Spec2Model ----
(***************************************************************************)
(* apisix-seed, package storer: the etcd backend client (EtcdV3), the      *)
(* generic object store (GenericStore) with its cache, and the watch       *)
(* forwarding task between the backend subscription and the consumer.      *)
(*                                                                         *)
(* A backend path is a tuple of its segments: "/apisix/routes/1" is        *)
(* <<"apisix", "routes", "1">> and the empty string is << >>.  A stored    *)
(* value is the raw text held at a path.                                   *)
(***************************************************************************)
EXTENDS Naturals, Sequences, FiniteSets, TLC

VARIABLES
    kv,        \* etcd: the values held by the backend, path -> raw text
    objType,   \* GenericStore.opt.ObjType: the configured object shape
    heap,      \* the live domain objects, pointer -> object
    cache,     \* GenericStore.cache: path -> pointer
    cancel,    \* GenericStore.cancel: 0 is nil, i is the cancel of subscription i
    panicked,  \* the process died of a nil function call
    subs,      \* the watch subscriptions opened so far, in order of Watch calls
    ret,       \* what the last call returned and what it sent to the backend
    calls      \* the calls running concurrently, in the order they began

vars == <<kv, objType, heap, cache, cancel, panicked, subs, ret, calls>>

-----------------------------------------------------------------------------
(* Bounds of the model. *)

\* most items in one backend notification batch
MaxBatchLen == 2
\* most batches the backend emits, over all subscriptions
MaxEmit == 2
\* most Watch calls
MaxWatch == 2
\* most calls running concurrently on the cache
MaxCalls == 3

-----------------------------------------------------------------------------
(* Paths. *)

BasePath == <<"apisix", "routes">>
Prefix == <<"apisix">>
Route1 == <<"apisix", "routes", "1">>
Route2 == <<"apisix", "routes", "2">>
Route10 == <<"apisix", "routes", "10">>
\* the keys the backend may hold
BackendKeys == {BasePath, Route1, Route2}

\* the segments in byte order, as etcd compares keys
SegOrder == <<"1", "10", "2", "apisix", "routes">>

SegRank(s) == CHOOSE i \in 1..Len(SegOrder) : SegOrder[i] = s

\* the segment s starts with the text of the segment p
SegStartsWith(s, p) == s = p \/ <<p, s>> \in {<<"1", "10">>}

\* the "/"-joined key k starts with the text of the "/"-joined key p, as
\* clientv3.WithPrefix compares them: "/apisix/routes/1" is a prefix of
\* "/apisix/routes/10"
IsPrefix(p, k) ==
    \/ p = << >>
    \/ /\ 0 < Len(p) /\ Len(p) <= Len(k)
       /\ SubSeq(k, 1, Len(p) - 1) = SubSeq(p, 1, Len(p) - 1)
       /\ SegStartsWith(k[Len(p)], p[Len(p)])

\* byte order of the "/"-joined keys: the first differing segment decides, and
\* a key sorts before every key it is a proper prefix of
KeyLess(a, b) ==
    \/ Len(a) < Len(b) /\ IsPrefix(a, b)
    \/ \E i \in 1..Len(a) :
          /\ i <= Len(b)
          /\ SubSeq(a, 1, i - 1) = SubSeq(b, 1, i - 1)
          /\ SegRank(a[i]) < SegRank(b[i])

\* the keys of S in ascending order
RECURSIVE SortKeys(_)
SortKeys(S) ==
    IF S = {} THEN << >>
    ELSE LET m == CHOOSE k \in S : \A o \in S \ {k} : KeyLess(k, o)
         IN  <<m>> \o SortKeys(S \ {m})

-----------------------------------------------------------------------------
(* Raw values and their decoding. *)

DirPlaceholder == "init_dir"

Ids == {"", "1", "2"}
NodeLists == {<< >>, <<"n1">>, <<"n2", "n1">>}

\* the fields of a JSON document of the stored objects
Docs == [id : Ids, nodes : NodeLists, updated : BOOLEAN]

RECURSIVE JoinComma(_)
JoinComma(parts) ==
    IF parts = << >> THEN ""
    ELSE IF Len(parts) = 1 THEN parts[1]
    ELSE parts[1] \o "," \o JoinComma(Tail(parts))

RECURSIVE Quoted(_)
Quoted(ns) ==
    IF ns = << >> THEN << >> ELSE <<"\"" \o ns[1] \o "\"">> \o Quoted(Tail(ns))

\* the JSON text of a document; empty fields are omitted
Render(d) ==
    "{" \o JoinComma(
        (IF d.id = "" THEN << >> ELSE <<"\"id\":\"" \o d.id \o "\"">>)
        \o (IF d.nodes = << >> THEN << >>
            ELSE <<"\"nodes\":[" \o JoinComma(Quoted(d.nodes)) \o "]">>)
        \o (IF d.updated THEN <<"\"update_time\":1">> ELSE << >>))
    \o "}"

\* the JSON text of every document
JsonText == [d \in Docs |-> Render(d)]

BadJson == "{bad"

\* what the backend may hold at a key
Values == {DirPlaceholder, BadJson,
           JsonText[[id |-> "", nodes |-> << >>, updated |-> FALSE]],
           JsonText[[id |-> "1", nodes |-> << >>, updated |-> FALSE]],
           JsonText[[id |-> "2", nodes |-> <<"n1">>, updated |-> FALSE]]}

\* the decoding of a JSON text: the document it renders, or a syntax error
ParseJson(raw) ==
    IF \E d \in Docs : JsonText[d] = raw
    THEN [ok |-> TRUE, doc |-> CHOOSE d \in Docs : JsonText[d] = raw]
    ELSE [ok |-> FALSE, doc |-> [id |-> "", nodes |-> << >>, updated |-> FALSE]]


-----------------------------------------------------------------------------
(* Domain objects and their capabilities. *)

\* the object shapes: "Route" holds an identifier and a node list, "Info"
\* an identifier only, "Nodes" a node list only, "Plain" neither; "Opaque"
\* holds a node list and cannot be encoded
Shapes == {"Route", "Info", "Nodes", "Plain", "Opaque"}

\* the shapes a store may be configured with
StoreShapes == {"Route", "Info", "Nodes", "Plain"}

\* entity.BaseInfoSetter
IsBaseInfoSetter(o) == o.shape \in {"Route", "Info"}

\* entity.NodesSetter
IsNodesSetter(o) == o.shape \in {"Route", "Nodes", "Opaque"}

\* entity.Aller
IsAller(o) == o.shape = "Route"

Object(shape, id, nodes, updated) ==
    [shape |-> shape, id |-> id, nodes |-> nodes, updated |-> updated]

\* reflect.New(ObjType): the zero value of the shape
ZeroObject(shape) == Object(shape, "", << >>, FALSE)

\* json.Unmarshal / entity.Unmarshal into the object: the fields the shape
\* has are taken from the document, the others are ignored
Unmarshal(raw, o) ==
    LET p == ParseJson(raw)
    IN  [ok  |-> p.ok,
         obj |-> IF ~p.ok THEN o
                 ELSE Object(o.shape,
                        IF IsBaseInfoSetter(o) THEN p.doc.id ELSE "",
                        IF IsNodesSetter(o) THEN p.doc.nodes ELSE << >>,
                        IF IsBaseInfoSetter(o) THEN p.doc.updated ELSE FALSE)]

\* json.Marshal / entity.Marshal of the object
Marshal(o) ==
    [ok   |-> o.shape # "Opaque",
     text |-> IF o.shape = "Opaque" THEN ""
              ELSE JsonText[[id |-> o.id, nodes |-> o.nodes, updated |-> o.updated]]]

\* FromatKey(key, prefix): the prefix is stripped, and the last segment is the
\* identifier when at least a resource type and one more segment remain
FromatKey(key, prefix) ==
    LET rest == IF IsPrefix(prefix, key)
                THEN SubSeq(key, Len(prefix) + 1, Len(key)) ELSE key
    IN  IF Len(rest) < 2 THEN "" ELSE rest[Len(rest)]

\* the decode rule taking the identifier from the path whatever the text holds
StringToObjPtr_PathOverwritesId(str, key, shape) ==
    LET u  == Unmarshal(str, ZeroObject(shape))
        id == FromatKey(key, Prefix)
    IN  IF ~u.ok THEN [err |-> "DecodeError", obj |-> ZeroObject(shape)]
        ELSE [err |-> "",
              obj |-> IF IsBaseInfoSetter(u.obj) /\ id # ""
                      THEN [u.obj EXCEPT !.id = id]
                      ELSE u.obj]

\* GenericStore.StringToObjPtr(str, key)
StringToObjPtr(str, key, shape) ==
    LET u  == Unmarshal(str, ZeroObject(shape))
        id == FromatKey(key, Prefix)
    IN  IF ~u.ok THEN [err |-> "DecodeError", obj |-> ZeroObject(shape)]
        ELSE [err |-> "",
              obj |-> IF IsBaseInfoSetter(u.obj) /\ u.obj.id = "" /\ id # ""
                      THEN [u.obj EXCEPT !.id = id]
                      ELSE u.obj]

-----------------------------------------------------------------------------
(* The result of a call. *)

NoRet ==
    [op |-> "none", key |-> << >>, err |-> "", msgs |-> << >>, objs |-> << >>,
     old |-> << >>, existed |-> FALSE, arg |-> << >>, filter |-> "nil",
     nodes |-> << >>, sent |-> << >>, value |-> ""]

-----------------------------------------------------------------------------
(* EtcdV3: the backend client. *)

\* client.Get(prefix, WithPrefix()): the entries under the prefix, in key order
GetPrefix(store, prefix) ==
    LET keys == SortKeys({k \in DOMAIN store : IsPrefix(prefix, k)})
    IN  [i \in 1..Len(keys) |-> [Key |-> keys[i], Value |-> store[keys[i]]]]

\* List answering NotFound when nothing is left once the placeholder is dropped
EtcdV3List_NotFoundWhenEmptied(store, prefix, ok) ==
    LET kvs  == GetPrefix(store, prefix)
        rest == IF Len(kvs) > 0 /\ kvs[1].Value = DirPlaceholder
                THEN Tail(kvs) ELSE kvs
    IN  IF ~ok THEN [err |-> "BackendError", msgs |-> << >>]
        ELSE IF Len(rest) = 0 THEN [err |-> "NotFound", msgs |-> << >>]
        ELSE [err |-> "", msgs |-> rest]

\* EtcdV3.List(prefix), the backend answering (ok) or failing
EtcdV3List(store, prefix, ok) ==
    LET kvs == GetPrefix(store, prefix)
    IN  IF ~ok THEN [err |-> "BackendError", msgs |-> << >>]
        ELSE IF Len(kvs) = 0 THEN [err |-> "NotFound", msgs |-> << >>]
        ELSE IF kvs[1].Value = DirPlaceholder
             THEN [err |-> "", msgs |-> Tail(kvs)]
        ELSE [err |-> "", msgs |-> kvs]

-----------------------------------------------------------------------------
(* GenericStore: the cache.  The cache holds pointers; an object lives in   *)
(* the heap as long as the cache refers to it.                              *)

\* the empty cache and the empty heap
EmptyMap == << >>

\* the keys callers store and delete at
CacheKeys == {Route1, Route2}

\* the keys callers update the nodes of; << >> is the empty key
UpdateKeys == {<< >>, Route1}

\* the node lists callers pass
NewNodeLists == {<< >>, <<"n2", "n1">>}

\* the objects callers build and store
NewObjects ==
    {Object("Route", "1", << >>, FALSE), Object("Nodes", "", <<"n1">>, FALSE),
     Object("Plain", "", << >>, FALSE), Object("Opaque", "", << >>, FALSE)}

\* a pointer not in use
Alloc(h) == Len(h) + 1

\* the heap with the object at a new pointer
WithObject(h, o) == Append(h, o)

FirstAt(seq, p) == CHOOSE i \in 1..Len(seq) : seq[i] = p /\ \A j \in 1..(i - 1) : seq[j] # p

\* The objects the cache and the last call's result refer to stay alive, the
\* others are collected.  Pointers carry no meaning beyond identity: they are
\* renumbered in the order the cache (by key) and then the result name them.
Collect(h, c, old, arg, objs) ==
    LET keys  == SortKeys(DOMAIN c)
        roots == [i \in 1..Len(keys) |-> c[keys[i]]] \o old \o arg \o objs
        live  == {roots[i] : i \in 1..Len(roots)}
        rank  == [p \in live |-> Cardinality({roots[j] : j \in 1..FirstAt(roots, p)})]
    IN  [heap  |-> [n \in 1..Cardinality(live) |-> h[CHOOSE p \in live : rank[p] = n]],
         cache |-> [k \in DOMAIN c |-> rank[c[k]]],
         old   |-> [i \in 1..Len(old) |-> rank[old[i]]],
         arg   |-> [i \in 1..Len(arg) |-> rank[arg[i]]],
         objs  |-> [i \in 1..Len(objs) |-> rank[objs[i]]]]

\* sync.Map.LoadOrStore
LoadOrStore(c, k, p) ==
    IF k \in DOMAIN c
    THEN [actual |-> c[k], loaded |-> TRUE, cache |-> c]
    ELSE [actual |-> p, loaded |-> FALSE,
          cache |-> [x \in DOMAIN c \cup {k} |-> IF x = k THEN p ELSE c[x]]]

\* sync.Map.Store
MapStore(c, k, p) == [x \in DOMAIN c \cup {k} |-> IF x = k THEN p ELSE c[x]]

\* sync.Map.LoadAndDelete
LoadAndDelete(c, k) ==
    IF k \in DOMAIN c
    THEN [value |-> <<c[k]>>, loaded |-> TRUE,
          cache |-> [x \in DOMAIN c \ {k} |-> c[x]]]
    ELSE [value |-> << >>, loaded |-> FALSE, cache |-> c]

\* Store without the second write: an existing entry is kept
Store_KeepsOld(c, key, objPtr) ==
    LET r == LoadOrStore(c, key, objPtr)
    IN  [oldObj |-> r.actual, ok |-> r.loaded, cache |-> r.cache]

\* GenericStore.Store(key, objPtr)
Store(c, key, objPtr) ==
    LET r == LoadOrStore(c, key, objPtr)
    IN  [oldObj |-> r.actual, ok |-> r.loaded,
         cache  |-> IF r.loaded THEN MapStore(r.cache, key, objPtr) ELSE r.cache]

\* Delete that loads the entry and leaves it in the cache
Delete_KeepsEntry(c, key) ==
    [value  |-> IF key \in DOMAIN c THEN <<c[key]>> ELSE << >>,
     loaded |-> key \in DOMAIN c,
     cache  |-> c]

\* GenericStore.Delete(key)
Delete(c, key) == LoadAndDelete(c, key)

\* a caller stores an object it built
CallStoreNew(key, obj) ==
    /\ ~panicked
    /\ \E p \in {Alloc(heap)} :
       \E r \in {Store(cache, key, p)} :
       \E n \in {Collect(WithObject(heap, obj), r.cache, <<r.oldObj>>, <<p>>, << >>)} :
           /\ cache' = n.cache
           /\ heap' = n.heap
           /\ ret' = [NoRet EXCEPT !.op = "Store", !.key = key, !.arg = n.arg,
                                   !.old = n.old, !.existed = r.ok]
    /\ UNCHANGED <<kv, objType, cancel, panicked, subs, calls>>

\* a caller stores an object it got from the store
CallStoreHeld(key, p) ==
    /\ ~panicked
    /\ p \in 1..Len(heap)
    /\ \E r \in {Store(cache, key, p)} :
       \E n \in {Collect(heap, r.cache, <<r.oldObj>>, <<p>>, << >>)} :
           /\ cache' = n.cache
           /\ heap' = n.heap
           /\ ret' = [NoRet EXCEPT !.op = "Store", !.key = key, !.arg = n.arg,
                                   !.old = n.old, !.existed = r.ok]
    /\ UNCHANGED <<kv, objType, cancel, panicked, subs, calls>>

CallDelete(key) ==
    /\ ~panicked
    /\ \E r \in {Delete(cache, key)} :
       \E n \in {Collect(heap, r.cache, r.value, << >>, << >>)} :
           /\ cache' = n.cache
           /\ heap' = n.heap
           /\ ret' = [NoRet EXCEPT !.op = "Delete", !.key = key,
                                   !.old = n.old, !.existed = r.loaded]
    /\ UNCHANGED <<kv, objType, cancel, panicked, subs, calls>>

\* the texts and the keys callers decode
DecodeTexts == {JsonText[d] : d \in Docs} \cup {BadJson, DirPlaceholder}
DecodeKeys == {<< >>, Prefix, BasePath, Route1, Route2, <<"routes", "2">>}

\* a caller decodes a text; the object it gets is new and not cached
CallStringToObjPtr(str, key) ==
    /\ ~panicked
    /\ \E r \in {StringToObjPtr(str, key, objType)} :
       \E p \in {Alloc(heap)} :
       \E n \in {IF r.err # "" THEN Collect(heap, cache, << >>, << >>, << >>)
                 ELSE Collect(WithObject(heap, r.obj), cache, << >>, << >>, <<p>>)} :
           /\ heap' = n.heap
           /\ cache' = n.cache
           /\ ret' = [NoRet EXCEPT !.op = "StringToObjPtr", !.key = key,
                                   !.value = str, !.err = r.err,
                                   !.objs = n.objs]
    /\ UNCHANGED <<kv, objType, cancel, panicked, subs, calls>>

\* a caller lists a prefix of the backend
ListPrefixes == {BasePath, Prefix, Route1}

CallEtcdList(prefix, ok) ==
    /\ ~panicked
    /\ \E r \in {EtcdV3List(kv, prefix, ok)} :
       \E n \in {Collect(heap, cache, << >>, << >>, << >>)} :
           /\ heap' = n.heap
           /\ cache' = n.cache
           /\ ret' = [NoRet EXCEPT !.op = "EtcdList", !.key = prefix,
                                   !.err = r.err, !.msgs = r.msgs]
    /\ UNCHANGED <<kv, objType, cancel, panicked, subs, calls>>

-----------------------------------------------------------------------------
(* GenericStore.List *)

\* the filters callers pass; "nil" is no filter
Filters == {"nil", "idIs1", "none"}

Accepts(filter, o) ==
    CASE filter = "nil"      -> TRUE
      [] filter = "idIs1"    -> o.id = "1"
      [] OTHER               -> FALSE

\* the loop storing every decoded object, also those the filter rejects
RECURSIVE ListLoop_StoresRejected(_, _, _, _, _, _, _)
ListLoop_StoresRejected(msgs, i, h, c, objPtrs, filter, shape) ==
    IF i > Len(msgs) THEN [err |-> "", objs |-> objPtrs, heap |-> h, cache |-> c]
    ELSE LET d == StringToObjPtr(msgs[i].Value, msgs[i].Key, shape)
             p == Alloc(h)
         IN  IF d.err # ""
             THEN [err |-> d.err, objs |-> << >>, heap |-> h, cache |-> c]
             ELSE ListLoop_StoresRejected(msgs, i + 1,
                      WithObject(h, d.obj),
                      Store(c, msgs[i].Key, p).cache,
                      IF Accepts(filter, d.obj) THEN Append(objPtrs, p) ELSE objPtrs,
                      filter, shape)

\* the loop going on after an entry that does not decode
RECURSIVE ListLoop_StoresAfterFailure(_, _, _, _, _, _, _)
ListLoop_StoresAfterFailure(msgs, i, h, c, objPtrs, filter, shape) ==
    IF i > Len(msgs) THEN [err |-> "", objs |-> objPtrs, heap |-> h, cache |-> c]
    ELSE LET d == StringToObjPtr(msgs[i].Value, msgs[i].Key, shape)
             p == Alloc(h)
         IN  IF d.err # ""
             THEN LET rest == ListLoop_StoresAfterFailure(msgs, i + 1, h, c,
                                  objPtrs, filter, shape)
                  IN  [err |-> d.err, objs |-> << >>, heap |-> rest.heap,
                       cache |-> rest.cache]
             ELSE IF Accepts(filter, d.obj)
             THEN ListLoop_StoresAfterFailure(msgs, i + 1,
                           WithObject(h, d.obj),
                           Store(c, msgs[i].Key, p).cache,
                           Append(objPtrs, p), filter, shape)
             ELSE ListLoop_StoresAfterFailure(msgs, i + 1, h, c, objPtrs,
                                              filter, shape)

\* the loop of GenericStore.List from entry i on
RECURSIVE ListLoop(_, _, _, _, _, _, _)
ListLoop(msgs, i, h, c, objPtrs, filter, shape) ==
    IF i > Len(msgs) THEN [err |-> "", objs |-> objPtrs, heap |-> h, cache |-> c]
    ELSE LET d == StringToObjPtr(msgs[i].Value, msgs[i].Key, shape)
             p == Alloc(h)
         IN  IF d.err # ""
             THEN [err |-> d.err, objs |-> << >>, heap |-> h, cache |-> c]
             ELSE IF Accepts(filter, d.obj)
             THEN ListLoop(msgs, i + 1,
                           WithObject(h, d.obj),
                           Store(c, msgs[i].Key, p).cache,
                           Append(objPtrs, p), filter, shape)
             ELSE ListLoop(msgs, i + 1, h, c, objPtrs, filter, shape)

\* List caching the listing in place of what was cached
GenericList_ReplacesCache(store, h, c, filter, shape, ok) ==
    LET r == EtcdV3List(store, BasePath, ok)
    IN  IF r.err # ""
        THEN [err |-> r.err, objs |-> << >>, heap |-> h, cache |-> c]
        ELSE ListLoop(r.msgs, 1, h, EmptyMap, << >>, filter, shape)

\* GenericStore.List(filter), the backend answering (ok) or failing
GenericList(store, h, c, filter, shape, ok) ==
    LET r == EtcdV3List(store, BasePath, ok)
    IN  IF r.err # ""
        THEN [err |-> r.err, objs |-> << >>, heap |-> h, cache |-> c]
        ELSE ListLoop(r.msgs, 1, h, c, << >>, filter, shape)

CallList(filter, ok) ==
    /\ ~panicked
    /\ \E r \in {GenericList(kv, heap, cache, filter, objType, ok)} :
       \E n \in {Collect(r.heap, r.cache, << >>, << >>, r.objs)} :
           /\ cache' = n.cache
           /\ heap' = n.heap
           /\ ret' = [NoRet EXCEPT !.op = "List", !.key = BasePath,
                                   !.filter = filter, !.err = r.err,
                                   !.objs = n.objs]
    /\ UNCHANGED <<kv, objType, cancel, panicked, subs, calls>>

-----------------------------------------------------------------------------
(* GenericStore.UpdateNodes *)

\* EtcdV3.Update(key, value), the backend answering (ok) or failing
EtcdV3Update(store, key, value, ok) ==
    IF ok
    THEN [err |-> "",
          store |-> [x \in DOMAIN store \cup {key} |->
                       IF x = key THEN value ELSE store[x]]]
    ELSE [err |-> "BackendError", store |-> store]

\* NodesSetter.SetNodes
SetNodes(o, nodes) == [o EXCEPT !.nodes = nodes]

\* BaseInfo.Updating: the update time is set
Updating(o) == [o EXCEPT !.updated = TRUE]

\* UpdateNodes encoding the object before it sets the nodes
UpdateNodes_StaleEncoding(store, h, c, key, nodes, ok) ==
    IF key = << >>
    THEN [err |-> "KeyRequired", heap |-> h, store |-> store, sent |-> << >>]
    ELSE IF key \notin DOMAIN c
    THEN [err |-> "NotFound", heap |-> h, store |-> store, sent |-> << >>]
    ELSE IF ~IsNodesSetter(h[c[key]])
    THEN [err |-> "CapabilityError", heap |-> h, store |-> store, sent |-> << >>]
    ELSE LET o1 == SetNodes(h[c[key]], nodes)
             o2 == IF IsBaseInfoSetter(o1) THEN Updating(o1) ELSE o1
             h2 == [h EXCEPT ![c[key]] = o2]
             bs == Marshal(h[c[key]])
             u  == EtcdV3Update(store, key, bs.text, ok)
         IN  IF ~bs.ok
             THEN [err |-> "MarshalError", heap |-> h2, store |-> store,
                   sent |-> << >>]
             ELSE [err |-> u.err, heap |-> h2, store |-> u.store,
                   sent |-> <<[Key |-> key, Value |-> bs.text]>>]

\* UpdateNodes restoring the cached object when the backend push fails
UpdateNodes_RollsBack(store, h, c, key, nodes, ok) ==
    IF key = << >>
    THEN [err |-> "KeyRequired", heap |-> h, store |-> store, sent |-> << >>]
    ELSE IF key \notin DOMAIN c
    THEN [err |-> "NotFound", heap |-> h, store |-> store, sent |-> << >>]
    ELSE IF ~IsNodesSetter(h[c[key]])
    THEN [err |-> "CapabilityError", heap |-> h, store |-> store, sent |-> << >>]
    ELSE LET o1 == SetNodes(h[c[key]], nodes)
             o2 == IF IsBaseInfoSetter(o1) THEN Updating(o1) ELSE o1
             h2 == [h EXCEPT ![c[key]] = o2]
             bs == Marshal(o2)
             u  == EtcdV3Update(store, key, bs.text, ok)
         IN  IF ~bs.ok
             THEN [err |-> "MarshalError", heap |-> h2, store |-> store,
                   sent |-> << >>]
             ELSE [err |-> u.err, heap |-> IF u.err = "" THEN h2 ELSE h,
                   store |-> u.store,
                   sent |-> <<[Key |-> key, Value |-> bs.text]>>]

\* GenericStore.UpdateNodes(ctx, key, nodes)
UpdateNodes(store, h, c, key, nodes, ok) ==
    IF key = << >>
    THEN [err |-> "KeyRequired", heap |-> h, store |-> store, sent |-> << >>]
    ELSE IF key \notin DOMAIN c
    THEN [err |-> "NotFound", heap |-> h, store |-> store, sent |-> << >>]
    ELSE IF ~IsNodesSetter(h[c[key]])
    THEN [err |-> "CapabilityError", heap |-> h, store |-> store, sent |-> << >>]
    ELSE LET o1 == SetNodes(h[c[key]], nodes)
             o2 == IF IsBaseInfoSetter(o1) THEN Updating(o1) ELSE o1
             h2 == [h EXCEPT ![c[key]] = o2]
             bs == Marshal(o2)
             u  == EtcdV3Update(store, key, bs.text, ok)
         IN  IF ~bs.ok
             THEN [err |-> "MarshalError", heap |-> h2, store |-> store,
                   sent |-> << >>]
             ELSE [err |-> u.err, heap |-> h2, store |-> u.store,
                   sent |-> <<[Key |-> key, Value |-> bs.text]>>]

CallUpdateNodes(key, nodes, ok) ==
    /\ ~panicked
    /\ \E r \in {UpdateNodes(kv, heap, cache, key, nodes, ok)} :
       \E n \in {Collect(r.heap, cache, << >>, << >>, << >>)} :
           /\ heap' = n.heap
           /\ cache' = n.cache
           /\ kv' = r.store
           /\ ret' = [NoRet EXCEPT !.op = "UpdateNodes", !.key = key,
                                   !.nodes = nodes, !.err = r.err,
                                   !.sent = r.sent]
    /\ UNCHANGED <<objType, cancel, panicked, subs, calls>>

-----------------------------------------------------------------------------
(* EtcdV3: the calls on one key and on a prefix. *)

\* the keys and the values the callers of the backend client use
EtcdKeys == {BasePath, Route1, Route10}
EtcdPrefixes == {BasePath, Route1, Route2}
EtcdValues == {DirPlaceholder,
               JsonText[[id |-> "1", nodes |-> << >>, updated |-> FALSE]]}

\* EtcdV3.Get(key)
EtcdV3Get(store, key, ok) ==
    IF ~ok THEN [err |-> "BackendError", value |-> ""]
    ELSE IF key \notin DOMAIN store THEN [err |-> "NotFound", value |-> ""]
    ELSE [err |-> "", value |-> store[key]]

\* EtcdV3.Create(key, value)
EtcdV3Create(store, key, value, ok) ==
    IF ok
    THEN [err |-> "",
          store |-> [x \in DOMAIN store \cup {key} |->
                       IF x = key THEN value ELSE store[x]]]
    ELSE [err |-> "BackendError", store |-> store]

\* Delete that never answers NotFound
EtcdV3Delete_NeverNotFound(store, key, ok) ==
    IF ~ok THEN [err |-> "BackendError", store |-> store]
    ELSE [err |-> "", store |-> [x \in DOMAIN store \ {key} |-> store[x]]]

\* EtcdV3.Delete(key)
EtcdV3Delete(store, key, ok) ==
    IF ~ok THEN [err |-> "BackendError", store |-> store]
    ELSE IF key \notin DOMAIN store THEN [err |-> "NotFound", store |-> store]
    ELSE [err |-> "", store |-> [x \in DOMAIN store \ {key} |-> store[x]]]

\* EtcdV3.DeletePrefix(prefix)
EtcdV3DeletePrefix(store, prefix, ok) ==
    LET under == {k \in DOMAIN store : IsPrefix(prefix, k)}
    IN  IF ~ok THEN [err |-> "BackendError", store |-> store]
        ELSE IF under = {} THEN [err |-> "NotFound", store |-> store]
        ELSE [err |-> "", store |-> [x \in DOMAIN store \ under |-> store[x]]]

CallEtcdGet(key, ok) ==
    /\ ~panicked
    /\ \E r \in {EtcdV3Get(kv, key, ok)} :
       \E n \in {Collect(heap, cache, << >>, << >>, << >>)} :
           /\ heap' = n.heap
           /\ cache' = n.cache
           /\ ret' = [NoRet EXCEPT !.op = "EtcdGet", !.key = key,
                                   !.err = r.err, !.value = r.value]
    /\ UNCHANGED <<kv, objType, cancel, panicked, subs, calls>>

CallEtcdCreate(key, value, ok) ==
    /\ ~panicked
    /\ \E r \in {EtcdV3Create(kv, key, value, ok)} :
       \E n \in {Collect(heap, cache, << >>, << >>, << >>)} :
           /\ heap' = n.heap
           /\ cache' = n.cache
           /\ kv' = r.store
           /\ ret' = [NoRet EXCEPT !.op = "EtcdCreate", !.key = key,
                                   !.err = r.err, !.value = value]
    /\ UNCHANGED <<objType, cancel, panicked, subs, calls>>

CallEtcdUpdate(key, value, ok) ==
    /\ ~panicked
    /\ \E r \in {EtcdV3Update(kv, key, value, ok)} :
       \E n \in {Collect(heap, cache, << >>, << >>, << >>)} :
           /\ heap' = n.heap
           /\ cache' = n.cache
           /\ kv' = r.store
           /\ ret' = [NoRet EXCEPT !.op = "EtcdUpdate", !.key = key,
                                   !.err = r.err, !.value = value]
    /\ UNCHANGED <<objType, cancel, panicked, subs, calls>>

CallEtcdDelete(key, ok) ==
    /\ ~panicked
    /\ \E r \in {EtcdV3Delete(kv, key, ok)} :
       \E n \in {Collect(heap, cache, << >>, << >>, << >>)} :
           /\ heap' = n.heap
           /\ cache' = n.cache
           /\ kv' = r.store
           /\ ret' = [NoRet EXCEPT !.op = "EtcdDelete", !.key = key,
                                   !.err = r.err]
    /\ UNCHANGED <<objType, cancel, panicked, subs, calls>>

CallEtcdDeletePrefix(prefix, ok) ==
    /\ ~panicked
    /\ \E r \in {EtcdV3DeletePrefix(kv, prefix, ok)} :
       \E n \in {Collect(heap, cache, << >>, << >>, << >>)} :
           /\ heap' = n.heap
           /\ cache' = n.cache
           /\ kv' = r.store
           /\ ret' = [NoRet EXCEPT !.op = "EtcdDeletePrefix", !.key = prefix,
                                   !.err = r.err]
    /\ UNCHANGED <<objType, cancel, panicked, subs, calls>>

-----------------------------------------------------------------------------
(* EtcdV3.Watch: the backend subscription and the forwarding task. *)

EventAdd == "add"
EventDelete == "delete"

\* capacity of the channel EtcdV3.Watch returns
ChanCap == 1

\* the notifications the backend sends: a put of a real value, a put of the
\* directory placeholder, a delete (etcd sends no value with it) and a
\* notification of a type the client does not know
PutReal == [Type |-> "PUT", Key |-> Route2,
            Value |-> JsonText[[id |-> "2", nodes |-> << >>, updated |-> FALSE]]]
PutDir == [Type |-> "PUT", Key |-> BasePath, Value |-> DirPlaceholder]
DeleteReal == [Type |-> "DELETE", Key |-> Route1, Value |-> ""]
Unknown == [Type |-> "OTHER", Key |-> Route1,
            Value |-> JsonText[[id |-> "1", nodes |-> << >>, updated |-> FALSE]]]

Notifications == {PutReal, PutDir, DeleteReal, Unknown}

\* the sequences over S of length at most n
RECURSIVE SeqsUpTo(_, _)
SeqsUpTo(S, n) ==
    IF n = 0 THEN {<< >>}
    ELSE LET shorter == SeqsUpTo(S, n - 1)
         IN  shorter \cup {Append(q, x) : q \in shorter, x \in S}

\* every notification batch of the model (clientv3.WatchResponse)
Batches == [Canceled : BOOLEAN, Events : SeqsUpTo(Notifications, MaxBatchLen)]

\* the batches the backend sends on a running watch
ScenarioBatch == [Canceled |-> FALSE, Events |-> <<PutReal, PutDir>>]
DirOnlyBatch == [Canceled |-> FALSE, Events |-> <<PutDir>>]
CanceledBatch == [Canceled |-> TRUE, Events |-> <<DeleteReal>>]

WatchBatches == {ScenarioBatch, DirOnlyBatch, CanceledBatch}

\* NewStoreEvent(canceled)
NewStoreEvent(canceled) == [Canceled |-> canceled, Events |-> << >>]

\* StoreEvent.Add(typ, key, value): an item of no known type is refused
StoreEventAdd(storeEvent, typ, key, value) ==
    IF typ \in {EventAdd, EventDelete}
    THEN [err |-> FALSE,
          event |-> [storeEvent EXCEPT
                       !.Events = Append(@, [Type |-> typ, Key |-> key,
                                             Value |-> value])]]
    ELSE [err |-> TRUE, event |-> storeEvent]

\* the switch on ev.Type
EventType(t) ==
    CASE t = "PUT"    -> EventAdd
      [] t = "DELETE" -> EventDelete
      [] OTHER        -> ""

\* the loop skipping the placeholder at the head of the batch only
RECURSIVE ForwardItems_SkipsFirstOnly(_, _, _)
ForwardItems_SkipsFirstOnly(events, i, storeEvent) ==
    IF i > Len(events) THEN storeEvent
    ELSE IF i = 1 /\ events[i].Value = DirPlaceholder
    THEN ForwardItems_SkipsFirstOnly(events, i + 1, storeEvent)
    ELSE ForwardItems_SkipsFirstOnly(events, i + 1,
            StoreEventAdd(storeEvent, EventType(events[i].Type),
                          events[i].Key, events[i].Value).event)

\* the loop giving up the batch at the first item StoreEvent.Add refuses
RECURSIVE ForwardItems_StopsAtMalformed(_, _, _)
ForwardItems_StopsAtMalformed(events, i, storeEvent) ==
    IF i > Len(events) THEN storeEvent
    ELSE IF events[i].Value = DirPlaceholder
    THEN ForwardItems_StopsAtMalformed(events, i + 1, storeEvent)
    ELSE IF StoreEventAdd(storeEvent, EventType(events[i].Type),
                          events[i].Key, events[i].Value).err
    THEN storeEvent
    ELSE ForwardItems_StopsAtMalformed(events, i + 1,
            StoreEventAdd(storeEvent, EventType(events[i].Type),
                          events[i].Key, events[i].Value).event)

\* the loop over event.Events from item i on
RECURSIVE ForwardItems(_, _, _)
ForwardItems(events, i, storeEvent) ==
    IF i > Len(events) THEN storeEvent
    ELSE IF events[i].Value = DirPlaceholder
    THEN ForwardItems(events, i + 1, storeEvent)
    ELSE ForwardItems(events, i + 1,
            StoreEventAdd(storeEvent, EventType(events[i].Type),
                          events[i].Key, events[i].Value).event)

\* the body of the loop over eventChan: the Change Event of a batch
ForwardBatch(event) == ForwardItems(event.Events, 1, NewStoreEvent(event.Canceled))

\* a subscription right after EtcdV3.Watch returned
NewSubscription ==
    [ctxDone   |-> FALSE,    \* the context of the watch is cancelled
     eventChan |-> << >>,    \* the backend's channel: batches not yet taken
     chanEnded |-> FALSE,    \* the backend closed eventChan
     pc        |-> "range",  \* the forwarding task: "range", "send" or "done"
     held      |-> << >>,    \* the Change Event the task is sending
     ch        |-> << >>,    \* the returned channel
     chClosed  |-> FALSE,    \* the task closed ch
     emitted   |-> << >>,    \* every batch the backend put on eventChan
     received  |-> << >>]    \* every Change Event the consumer received

Emitted == LET RECURSIVE Sum(_)
               Sum(i) == IF i = 0 THEN 0 ELSE Len(subs[i].emitted) + Sum(i - 1)
           IN  Sum(Len(subs))

\* Watch cancelling the subscription it tracked before tracking the new one
CallWatch_CancelsPrevious ==
    /\ ~panicked
    /\ Len(subs) < MaxWatch
    /\ subs' = Append(IF cancel = 0 THEN subs
                      ELSE [subs EXCEPT ![cancel].ctxDone = TRUE],
                      NewSubscription)
    /\ cancel' = Len(subs) + 1
    /\ ret' = [NoRet EXCEPT !.op = "Watch", !.key = BasePath]
    /\ UNCHANGED <<kv, objType, heap, cache, panicked, calls>>

\* GenericStore.Watch()
CallWatch ==
    /\ ~panicked
    /\ Len(subs) < MaxWatch
    /\ subs' = Append(subs, NewSubscription)
    /\ cancel' = Len(subs) + 1
    /\ ret' = [NoRet EXCEPT !.op = "Watch", !.key = BasePath]
    /\ UNCHANGED <<kv, objType, heap, cache, panicked, calls>>

\* GenericStore.Unwatch(): calling the nil cancel function panics
CallUnwatch ==
    /\ ~panicked
    /\ IF cancel = 0
       THEN /\ panicked' = TRUE
            /\ UNCHANGED subs
       ELSE /\ subs' = [subs EXCEPT ![cancel].ctxDone = TRUE]
            /\ UNCHANGED panicked
    /\ ret' = [NoRet EXCEPT !.op = "Unwatch"]
    /\ UNCHANGED <<kv, objType, heap, cache, cancel, calls>>

\* the backend puts a batch on the channel of subscription i
BackendEmit(i, batch) ==
    /\ ~panicked
    /\ ~subs[i].chanEnded
    /\ Emitted < MaxEmit
    /\ subs' = [subs EXCEPT ![i].eventChan = Append(@, batch),
                            ![i].emitted = Append(@, batch)]
    /\ UNCHANGED <<kv, objType, heap, cache, cancel, panicked, ret, calls>>

\* the backend client closes the channel of a cancelled watch
BackendClose(i) ==
    /\ ~panicked
    /\ subs[i].ctxDone
    /\ ~subs[i].chanEnded
    /\ subs' = [subs EXCEPT ![i].chanEnded = TRUE]
    /\ UNCHANGED <<kv, objType, heap, cache, cancel, panicked, ret, calls>>

\* the backend ends a subscription on its own
BackendEnd(i) ==
    /\ ~panicked
    /\ ~subs[i].ctxDone
    /\ ~subs[i].chanEnded
    /\ subs' = [subs EXCEPT ![i].chanEnded = TRUE]
    /\ UNCHANGED <<kv, objType, heap, cache, cancel, panicked, ret, calls>>

\* the task takes the next batch from eventChan and builds its Change Event
TaskReceive(i) ==
    /\ ~panicked
    /\ subs[i].pc = "range"
    /\ subs[i].eventChan # << >>
    /\ subs' = [subs EXCEPT ![i].eventChan = Tail(@),
                            ![i].held = <<ForwardBatch(Head(subs[i].eventChan))>>,
                            ![i].pc = "send"]
    /\ UNCHANGED <<kv, objType, heap, cache, cancel, panicked, ret, calls>>

\* a send that drops the Change Event when the channel is full
TaskSend_DropsWhenFull(i) ==
    /\ ~panicked
    /\ subs[i].pc = "send"
    /\ subs' = [subs EXCEPT ![i].ch = IF Len(@) < ChanCap
                                      THEN Append(@, subs[i].held[1]) ELSE @,
                            ![i].held = << >>,
                            ![i].pc = "range"]
    /\ UNCHANGED <<kv, objType, heap, cache, cancel, panicked, ret, calls>>

\* ch <- &storeEvent: the task blocks while the channel is full
TaskSend(i) ==
    /\ ~panicked
    /\ subs[i].pc = "send"
    /\ Len(subs[i].ch) < ChanCap
    /\ subs' = [subs EXCEPT ![i].ch = Append(@, subs[i].held[1]),
                            ![i].held = << >>,
                            ![i].pc = "range"]
    /\ UNCHANGED <<kv, objType, heap, cache, cancel, panicked, ret, calls>>

\* a task that closes ch as soon as the watch is cancelled
TaskExit_OnCancel(i) ==
    /\ ~panicked
    /\ subs[i].pc = "range"
    /\ subs[i].ctxDone \/ (subs[i].eventChan = << >> /\ subs[i].chanEnded)
    /\ subs' = [subs EXCEPT ![i].chClosed = TRUE, ![i].pc = "done"]
    /\ UNCHANGED <<kv, objType, heap, cache, cancel, panicked, ret, calls>>

\* eventChan is closed and drained: the loop ends and the deferred close runs
TaskExit(i) ==
    /\ ~panicked
    /\ subs[i].pc = "range"
    /\ subs[i].eventChan = << >>
    /\ subs[i].chanEnded
    /\ subs' = [subs EXCEPT ![i].chClosed = TRUE, ![i].pc = "done"]
    /\ UNCHANGED <<kv, objType, heap, cache, cancel, panicked, ret, calls>>

\* the consumer receives the next Change Event
ConsumerReceive(i) ==
    /\ ~panicked
    /\ subs[i].ch # << >>
    /\ subs' = [subs EXCEPT ![i].ch = Tail(@),
                            ![i].received = Append(@, Head(subs[i].ch))]
    /\ UNCHANGED <<kv, objType, heap, cache, cancel, panicked, ret, calls>>

-----------------------------------------------------------------------------
(* The store after construction. *)

InitStore ==
    /\ heap = EmptyMap
    /\ cache = EmptyMap
    /\ cancel = 0
    /\ panicked = FALSE
    /\ subs = << >>
    /\ ret = NoRet
    /\ calls = << >>

-----------------------------------------------------------------------------
(* Listing: a store of any shape over any backend content. *)

InitList ==
    /\ kv \in UNION {[K -> Values] : K \in SUBSET BackendKeys}
    /\ objType \in StoreShapes
    /\ InitStore

NextList ==
    \/ \E prefix \in ListPrefixes, ok \in BOOLEAN : CallEtcdList(prefix, ok)
    \/ \E filter \in Filters, ok \in BOOLEAN : CallList(filter, ok)

SpecList == InitList /\ [][NextList]_vars

-----------------------------------------------------------------------------
(* The cache and node updates: a store of routes over the scenario backend. *)

\* the directory of routes and one route
ScenarioBackend ==
    [k \in {BasePath, Route1} |->
        IF k = BasePath THEN DirPlaceholder
        ELSE JsonText[[id |-> "1", nodes |-> << >>, updated |-> FALSE]]]

InitCache ==
    /\ kv = ScenarioBackend
    /\ objType = "Route"
    /\ InitStore

NextCache ==
    \/ \E key \in CacheKeys, obj \in NewObjects : CallStoreNew(key, obj)
    \/ \E key \in CacheKeys, p \in 1..Len(heap) : CallStoreHeld(key, p)
    \/ \E key \in CacheKeys : CallDelete(key)
    \/ \E key \in UpdateKeys, nodes \in NewNodeLists, ok \in BOOLEAN :
          CallUpdateNodes(key, nodes, ok)

SpecCache == InitCache /\ [][NextCache]_vars

-----------------------------------------------------------------------------
(* The backend client: a store of routes over a backend never written to.  *)

InitBackend ==
    /\ kv = EmptyMap
    /\ objType = "Route"
    /\ InitStore

NextBackend ==
    \/ \E key \in EtcdKeys, ok \in BOOLEAN : CallEtcdGet(key, ok)
    \/ \E key \in EtcdKeys, value \in EtcdValues, ok \in BOOLEAN :
          CallEtcdCreate(key, value, ok)
    \/ \E key \in EtcdKeys, value \in EtcdValues, ok \in BOOLEAN :
          CallEtcdUpdate(key, value, ok)
    \/ \E key \in EtcdKeys, ok \in BOOLEAN : CallEtcdDelete(key, ok)
    \/ \E prefix \in EtcdPrefixes, ok \in BOOLEAN : CallEtcdDeletePrefix(prefix, ok)
    \/ \E prefix \in EtcdPrefixes, ok \in BOOLEAN : CallEtcdList(prefix, ok)
    \/ \E ok \in BOOLEAN : CallList("nil", ok)

SpecBackend == InitBackend /\ [][NextBackend]_vars

-----------------------------------------------------------------------------
(* Decoding: a store of any shape decodes any text at any key. *)

InitDecode ==
    /\ kv = ScenarioBackend
    /\ objType \in StoreShapes
    /\ InitStore

NextDecode == \E str \in DecodeTexts, key \in DecodeKeys : CallStringToObjPtr(str, key)

SpecDecode == InitDecode /\ [][NextDecode]_vars

-----------------------------------------------------------------------------
(* Watching: a store of routes, its subscriptions and its consumer. *)

Subscriptions == 1..Len(subs)

NextWatch ==
    \/ CallWatch
    \/ CallUnwatch
    \/ \E i \in Subscriptions, batch \in WatchBatches : BackendEmit(i, batch)
    \/ \E i \in Subscriptions : BackendClose(i)
    \/ \E i \in Subscriptions : BackendEnd(i)
    \/ \E i \in Subscriptions : TaskReceive(i)
    \/ \E i \in Subscriptions : TaskSend(i)
    \/ \E i \in Subscriptions : TaskExit(i)
    \/ \E i \in Subscriptions : ConsumerReceive(i)

SpecWatch == InitCache /\ [][NextWatch]_vars

(* Delivery on one watch: Watch() has returned and the task is running. *)

InitWatching ==
    /\ kv = ScenarioBackend
    /\ objType = "Route"
    /\ heap = EmptyMap
    /\ cache = EmptyMap
    /\ cancel = 1
    /\ panicked = FALSE
    /\ ret = [NoRet EXCEPT !.op = "Watch", !.key = BasePath]
    /\ calls = << >>
    /\ subs = <<NewSubscription>>

NextDelivery ==
    \/ CallUnwatch
    \/ \E i \in Subscriptions, batch \in WatchBatches : BackendEmit(i, batch)
    \/ \E i \in Subscriptions : BackendClose(i)
    \/ \E i \in Subscriptions : BackendEnd(i)
    \/ \E i \in Subscriptions : TaskReceive(i)
    \/ \E i \in Subscriptions : TaskSend(i)
    \/ \E i \in Subscriptions : TaskExit(i)
    \/ \E i \in Subscriptions : ConsumerReceive(i)

SpecDelivery == InitWatching /\ [][NextDelivery]_vars

\* the backend client and the forwarding task are scheduled; the consumer and
\* the callers of the store are not obliged to act
FairTask ==
    /\ SpecDelivery
    /\ WF_vars(BackendClose(1))
    /\ WF_vars(TaskReceive(1))
    /\ WF_vars(TaskSend(1))
    /\ WF_vars(TaskExit(1))

\* as FairTask, with a consumer that keeps receiving
FairDelivery == FairTask /\ WF_vars(ConsumerReceive(1))

(* Forwarding one batch: a watch is open and the backend has sent any batch. *)

InitOneBatch ==
    /\ kv = ScenarioBackend
    /\ objType = "Route"
    /\ heap = EmptyMap
    /\ cache = EmptyMap
    /\ cancel = 1
    /\ panicked = FALSE
    /\ ret = [NoRet EXCEPT !.op = "Watch", !.key = BasePath]
    /\ calls = << >>
    /\ \E batch \in Batches :
          subs = <<[NewSubscription EXCEPT !.eventChan = <<batch>>,
                                           !.emitted = <<batch>>]>>

NextForward ==
    \/ \E i \in Subscriptions : TaskReceive(i)
    \/ \E i \in Subscriptions : TaskSend(i)
    \/ \E i \in Subscriptions : ConsumerReceive(i)

SpecForward == InitOneBatch /\ [][NextForward]_vars

-----------------------------------------------------------------------------
(* The whole store: every operation of a store of routes, with its watches, *)
(* over a backend that loses a path.                                        *)

\* the batch delivered: a put on /apisix/routes/2, a delete of /apisix/routes/1
MixedBatch == [Canceled |-> FALSE, Events |-> <<PutReal, DeleteReal>>]

NextStore ==
    \/ CallWatch
    \/ CallUnwatch
    \/ \E i \in Subscriptions : BackendEmit(i, MixedBatch)
    \/ \E i \in Subscriptions : TaskReceive(i)
    \/ \E i \in Subscriptions : TaskSend(i)
    \/ \E i \in Subscriptions : ConsumerReceive(i)
    \/ CallList("nil", TRUE)
    \/ CallStoreNew(Route2, Object("Route", "2", << >>, FALSE))
    \/ CallDelete(Route2)
    \/ CallUpdateNodes(Route1, <<"n2", "n1">>, TRUE)
    \/ CallStringToObjPtr(DirPlaceholder, Route1)
    \/ CallEtcdDelete(Route1, TRUE)

SpecStore == InitCache /\ [][NextStore]_vars

-----------------------------------------------------------------------------
(* Concurrent callers: Store, Delete and UpdateNodes called from several    *)
(* goroutines.  Each sync.Map operation and each backend call is one step;  *)
(* the object is shared through its pointer.  A call keeps its pointers, so *)
(* nothing is collected.                                                    *)

\* the key, the object and the node lists the concurrent callers use
SharedKey == Route1
SharedObject == Object("Route", "1", << >>, FALSE)
SharedNodeLists == {<<"n1">>, <<"n2", "n1">>}

\* a call that has just begun; "after" is the calls that had returned by then
NewCall(op, key, pc) ==
    [op |-> op, key |-> key, pc |-> pc, arg |-> 0, nodes |-> << >>,
     old |-> << >>, existed |-> FALSE, obj |-> 0, bs |-> "", err |-> "",
     after |-> {t \in 1..Len(calls) : calls[t].pc = "returned"}]

\* Store(key, objPtr) is called with a new object
BeginStore(key, obj) ==
    /\ Len(calls) < MaxCalls
    /\ heap' = WithObject(heap, obj)
    /\ calls' = Append(calls, [NewCall("Store", key, "LoadOrStore")
                                  EXCEPT !.arg = Alloc(heap)])
    /\ UNCHANGED <<kv, objType, cache, cancel, panicked, subs, ret>>

\* oldObj, ok := s.cache.LoadOrStore(key, objPtr)
StoreLoadOrStore(t) ==
    /\ calls[t].op = "Store" /\ calls[t].pc = "LoadOrStore"
    /\ \E r \in {LoadOrStore(cache, calls[t].key, calls[t].arg)} :
          /\ cache' = r.cache
          /\ calls' = [calls EXCEPT ![t].old = <<r.actual>>,
                                    ![t].existed = r.loaded,
                                    ![t].pc = IF r.loaded THEN "MapStore"
                                              ELSE "returned"]
    /\ UNCHANGED <<kv, objType, heap, cancel, panicked, subs, ret>>

\* s.cache.Store(key, objPtr)
StoreMapStore(t) ==
    /\ calls[t].op = "Store" /\ calls[t].pc = "MapStore"
    /\ cache' = MapStore(cache, calls[t].key, calls[t].arg)
    /\ calls' = [calls EXCEPT ![t].pc = "returned"]
    /\ UNCHANGED <<kv, objType, heap, cancel, panicked, subs, ret>>

\* Delete(key) is called
BeginDelete(key) ==
    /\ Len(calls) < MaxCalls
    /\ calls' = Append(calls, NewCall("Delete", key, "LoadAndDelete"))
    /\ UNCHANGED <<kv, objType, heap, cache, cancel, panicked, subs, ret>>

\* return s.cache.LoadAndDelete(key)
DeleteLoadAndDelete(t) ==
    /\ calls[t].op = "Delete" /\ calls[t].pc = "LoadAndDelete"
    /\ \E r \in {LoadAndDelete(cache, calls[t].key)} :
          /\ cache' = r.cache
          /\ calls' = [calls EXCEPT ![t].old = r.value,
                                    ![t].existed = r.loaded,
                                    ![t].pc = "returned"]
    /\ UNCHANGED <<kv, objType, heap, cancel, panicked, subs, ret>>

\* UpdateNodes(ctx, key, nodes) is called
BeginUpdateNodes(key, nodes) ==
    /\ Len(calls) < MaxCalls
    /\ calls' = Append(calls, [NewCall("UpdateNodes", key, "Load")
                                  EXCEPT !.nodes = nodes])
    /\ UNCHANGED <<kv, objType, heap, cache, cancel, panicked, subs, ret>>

\* the key check, s.cache.Load(key) and the NodesSetter assertion
UpdateLoad(t) ==
    /\ calls[t].op = "UpdateNodes" /\ calls[t].pc = "Load"
    /\ calls' = [calls EXCEPT ![t] =
          IF calls[t].key = << >>
          THEN [@ EXCEPT !.err = "KeyRequired", !.pc = "returned"]
          ELSE IF calls[t].key \notin DOMAIN cache
          THEN [@ EXCEPT !.err = "NotFound", !.pc = "returned"]
          ELSE IF ~IsNodesSetter(heap[cache[calls[t].key]])
          THEN [@ EXCEPT !.err = "CapabilityError", !.pc = "returned"]
          ELSE [@ EXCEPT !.obj = cache[calls[t].key], !.pc = "SetNodes"]]
    /\ UNCHANGED <<kv, objType, heap, cache, cancel, panicked, subs, ret>>

\* setter.SetNodes(nodes) and info.Updating(info) on the loaded object
UpdateSetNodes(t) ==
    /\ calls[t].op = "UpdateNodes" /\ calls[t].pc = "SetNodes"
    /\ \E o1 \in {SetNodes(heap[calls[t].obj], calls[t].nodes)} :
          heap' = [heap EXCEPT ![calls[t].obj] =
                      IF IsBaseInfoSetter(o1) THEN Updating(o1) ELSE o1]
    /\ calls' = [calls EXCEPT ![t].pc = "Marshal"]
    /\ UNCHANGED <<kv, objType, cache, cancel, panicked, subs, ret>>

\* entity.Marshal / json.Marshal of the loaded object
UpdateMarshal(t) ==
    /\ calls[t].op = "UpdateNodes" /\ calls[t].pc = "Marshal"
    /\ \E bs \in {Marshal(heap[calls[t].obj])} :
          calls' = [calls EXCEPT ![t] =
              IF bs.ok THEN [@ EXCEPT !.bs = bs.text, !.pc = "Update"]
              ELSE [@ EXCEPT !.err = "MarshalError", !.pc = "returned"]]
    /\ UNCHANGED <<kv, objType, heap, cache, cancel, panicked, subs, ret>>

\* s.Stg.Update(ctx, key, string(bs)), the backend answering (ok) or failing
UpdateSend(t, ok) ==
    /\ calls[t].op = "UpdateNodes" /\ calls[t].pc = "Update"
    /\ \E u \in {EtcdV3Update(kv, calls[t].key, calls[t].bs, ok)} :
          /\ kv' = u.store
          /\ calls' = [calls EXCEPT ![t].err = u.err, ![t].pc = "returned"]
    /\ UNCHANGED <<objType, heap, cache, cancel, panicked, subs, ret>>

Running == 1..Len(calls)

NextConcurrent ==
    \/ BeginStore(SharedKey, SharedObject)
    \/ \E t \in Running : StoreLoadOrStore(t)
    \/ \E t \in Running : StoreMapStore(t)
    \/ BeginDelete(SharedKey)
    \/ \E t \in Running : DeleteLoadAndDelete(t)
    \/ \E nodes \in SharedNodeLists : BeginUpdateNodes(SharedKey, nodes)
    \/ \E t \in Running : UpdateLoad(t)
    \/ \E t \in Running : UpdateSetNodes(t)
    \/ \E t \in Running : UpdateMarshal(t)
    \/ \E t \in Running, ok \in BOOLEAN : UpdateSend(t, ok)

SpecConcurrent == InitCache /\ [][NextConcurrent]_vars

-----------------------------------------------------------------------------
(* Properties of watching. *)

\* the Change Events a subscription holds or has delivered, oldest first
Forwarded(sub) == sub.received \o sub.ch \o sub.held

\* C2: no Change Item of a Change Event has the Directory Placeholder as its
\* value; the batch of a put of {"id":"2"} on /apisix/routes/2 and a put of the
\* placeholder on /apisix/routes is delivered as one Add for /apisix/routes/2.
C2_NoPlaceholderForwarded ==
    \A i \in Subscriptions :
        /\ \A j \in 1..Len(Forwarded(subs[i])) :
              \A n \in 1..Len(Forwarded(subs[i])[j].Events) :
                  Forwarded(subs[i])[j].Events[n].Value # DirPlaceholder
        /\ (subs[i].emitted = <<ScenarioBatch>> /\ Len(subs[i].received) = 1)
              => subs[i].received[1].Events =
                    <<[Type |-> EventAdd, Key |-> Route2, Value |-> "{\"id\":\"2\"}"]>>

\* the scenario batch has been delivered
C2_Witness ==
    /\ Len(subs) = 1
    /\ subs[1].emitted = <<ScenarioBatch>>
    /\ Len(subs[1].received) = 1
    /\ Len(subs[1].received[1].Events) = 1

\* the Change Events of a sequence of batches
ForwardAll(batches) == [j \in 1..Len(batches) |-> ForwardBatch(batches[j])]

\* every batch emitted is, in order and exactly once, received, in the slot,
\* in the task's hands or still on the backend's channel
Accounted(sub) ==
    /\ Len(sub.ch) <= ChanCap
    /\ Forwarded(sub) \o ForwardAll(sub.eventChan) = ForwardAll(sub.emitted)

\* C3: the Change Events received are those of the batches emitted, one per
\* batch and in their order, with at most one waiting in the slot; and with a
\* consumer that keeps receiving the n-th batch emitted leads to an n-th Change
\* Event received.
C3_OneEventPerBatchInOrder ==
    /\ [](\A i \in Subscriptions : Accounted(subs[i]))
    /\ \A n \in 1..MaxEmit :
          (Len(subs[1].emitted) >= n) ~> (Len(subs[1].received) >= n)

\* two batches, one of them all placeholder, have been delivered in order
C3_Witness ==
    \E i \in Subscriptions :
        /\ subs[i].emitted = <<DirOnlyBatch, ScenarioBatch>>
        /\ Len(subs[i].received) = 2
        /\ subs[i].received[1].Events = << >>
        /\ subs[i].received[2].Events # << >>

\* C4 as stated: once Unwatch() has cancelled a subscription, its forwarding
\* task terminates and the returned sequence is closed, whatever the consumer
\* does.
C4_UnwatchClosesSequence ==
    subs[1].ctxDone ~> (subs[1].pc = "done" /\ subs[1].chClosed)

\* C5: the store tracks the cancellation of the last Watch() only.  A Watch()
\* leaves every earlier subscription as it is; an Unwatch() cancels the tracked
\* subscription and no other; so a subscription that is not the tracked one is
\* never cancelled.
C5_OneTrackedCancel ==
    [][/\ Len(subs') > Len(subs)
          => /\ cancel' = Len(subs')
             /\ \A i \in Subscriptions : subs'[i] = subs[i]
       /\ \A i \in Subscriptions :
             /\ (subs'[i].ctxDone /\ ~subs[i].ctxDone)
                   => /\ i = cancel
                      /\ \A j \in Subscriptions \ {i} : subs'[j] = subs[j]
             /\ (i # cancel /\ ~subs[i].ctxDone) => ~subs'[i].ctxDone]_vars

\* after two Watch() and an Unwatch() the second subscription is closed and
\* the first still delivers
C5_Witness ==
    /\ Len(subs) = 2 /\ cancel = 2
    /\ subs[2].ctxDone /\ subs[2].chClosed
    /\ ~subs[1].ctxDone /\ ~subs[1].chanEnded /\ subs[1].pc # "done"
    /\ subs[1].received # << >>
    /\ ret.op = "Unwatch"

-----------------------------------------------------------------------------
(* Properties of the cache and of node updates. *)

\* the objects the cache holds, by key
CachedObjects(h, c) == [k \in DOMAIN c |-> h[c[k]]]

\* an UpdateNodes call that fails before it touches the object
UpdateRefused(key) ==
    /\ ret'.sent = << >>
    /\ kv' = kv
    /\ CachedObjects(heap', cache') = CachedObjects(heap, cache)

\* C6 as stated: UpdateNodes fails on an empty path, with NotFound on a path
\* not cached and with CapabilityError on an object that holds no node list,
\* each time without a backend Update and with the cache unchanged; in every
\* other case the node list is replaced and the backend gets exactly one
\* Update(path, encoding of the updated object).
C6_FourOutcomes ==
    [][ret'.op = "UpdateNodes"
        => IF ret'.key = << >>
           THEN ret'.err = "KeyRequired" /\ UpdateRefused(ret'.key)
           ELSE IF ret'.key \notin DOMAIN cache
           THEN ret'.err = "NotFound" /\ UpdateRefused(ret'.key)
           ELSE IF ~IsNodesSetter(heap[cache[ret'.key]])
           THEN ret'.err = "CapabilityError" /\ UpdateRefused(ret'.key)
           ELSE /\ heap'[cache'[ret'.key]].nodes = ret'.nodes
                /\ ret'.sent = <<[Key |-> ret'.key,
                                  Value |-> Marshal(heap'[cache'[ret'.key]]).text]>>]_vars

\* C6, amended: as above, except that an object that cannot be encoded gets
\* its node list replaced, a marshal error is returned and no Update is sent.
C6_Outcomes ==
    [][ret'.op = "UpdateNodes"
        => IF ret'.key = << >>
           THEN ret'.err = "KeyRequired" /\ UpdateRefused(ret'.key)
           ELSE IF ret'.key \notin DOMAIN cache
           THEN ret'.err = "NotFound" /\ UpdateRefused(ret'.key)
           ELSE IF ~IsNodesSetter(heap[cache[ret'.key]])
           THEN ret'.err = "CapabilityError" /\ UpdateRefused(ret'.key)
           ELSE /\ heap'[cache'[ret'.key]].nodes = ret'.nodes
                /\ cache' = cache
                /\ IF Marshal(heap'[cache'[ret'.key]]).ok
                   THEN /\ ret'.err \in {"", "BackendError"}
                        /\ ret'.sent = <<[Key |-> ret'.key,
                                Value |-> Marshal(heap'[cache'[ret'.key]]).text]>>
                   ELSE /\ ret'.err = "MarshalError"
                        /\ ret'.sent = << >>
                        /\ kv' = kv]_vars

\* a node update has replaced a node list and reached the backend
C6_Witness ==
    /\ ret.op = "UpdateNodes" /\ ret.err = ""
    /\ ret.nodes # << >>
    /\ heap[cache[ret.key]].nodes = ret.nodes
    /\ Len(ret.sent) = 1
    /\ kv[ret.key] = ret.sent[1].Value

\* C7: when the backend Update of UpdateNodes fails, the error is returned, the
\* cached object holds the new node list and the backend holds what it held.
C7_NoRollback ==
    [][(ret'.op = "UpdateNodes" /\ ret'.err = "BackendError")
        => /\ Len(ret'.sent) = 1
           /\ ret'.key \in DOMAIN cache'
           /\ heap'[cache'[ret'.key]].nodes = ret'.nodes
           /\ kv' = kv]_vars

\* a failed push has left the cache ahead of the backend
C7_Witness ==
    /\ ret.op = "UpdateNodes" /\ ret.err = "BackendError"
    /\ heap[cache[ret.key]].nodes = ret.nodes
    /\ ret.nodes # << >>
    /\ kv[ret.key] # ret.sent[1].Value

\* C8: Store(k, v) reports existed exactly when k was cached, then returns the
\* object that was cached, and leaves k mapped to v and every other key as it
\* was.
C8_StoreSemantics ==
    [][ret'.op = "Store"
        => /\ ret'.existed = (ret'.key \in DOMAIN cache)
           /\ ret'.existed => heap'[ret'.old[1]] = heap[cache[ret'.key]]
           /\ ret'.key \in DOMAIN cache'
           /\ cache'[ret'.key] = ret'.arg[1]
           /\ DOMAIN cache' = DOMAIN cache \cup {ret'.key}
           /\ \A k \in DOMAIN cache \ {ret'.key} : heap'[cache'[k]] = heap[cache[k]]
           /\ (ret.op = "Store" /\ ret.key = ret'.key) => ret'.existed]_vars

\* a second Store on a key has replaced the object of the first
C8_Witness ==
    /\ ret.op = "Store" /\ ret.existed
    /\ cache[ret.key] = ret.arg[1]
    /\ ret.old[1] # ret.arg[1]
    /\ heap[ret.old[1]] # heap[ret.arg[1]]

\* C9: Delete(k) on a cached key returns the cached object and true and removes
\* the entry; on a key not cached it returns nothing and false and changes
\* nothing.  So Delete(k) after Store(k, v) returns (v, true) and a second
\* Delete(k) returns (none, false).
C9_DeleteSemantics ==
    [][ret'.op = "Delete"
        => /\ IF ret'.key \in DOMAIN cache
              THEN /\ ret'.existed
                   /\ Len(ret'.old) = 1
                   /\ heap'[ret'.old[1]] = heap[cache[ret'.key]]
                   /\ DOMAIN cache' = DOMAIN cache \ {ret'.key}
              ELSE /\ ~ret'.existed
                   /\ ret'.old = << >>
                   /\ DOMAIN cache' = DOMAIN cache
           /\ \A k \in DOMAIN cache' : heap'[cache'[k]] = heap[cache[k]]
           /\ (ret.op = "Store" /\ ret.key = ret'.key)
                 => ret'.existed /\ heap'[ret'.old[1]] = heap[ret.arg[1]]
           /\ (ret.op = "Delete" /\ ret.key = ret'.key)
                 => ~ret'.existed /\ ret'.old = << >>]_vars

\* a Delete has removed and returned an entry
C9_Witness ==
    /\ ret.op = "Delete" /\ ret.existed
    /\ Len(ret.old) = 1
    /\ ret.key \notin DOMAIN cache
    /\ cache # EmptyMap

-----------------------------------------------------------------------------
(* Properties of listing. *)

\* C1: no entry returned by a successful EtcdV3.List(prefix) has the Directory
\* Placeholder as its value, whatever the backend holds under the prefix.
C1_NoPlaceholderListed ==
    (ret.op = "EtcdList" /\ ret.err = "")
        => \A i \in 1..Len(ret.msgs) : ret.msgs[i].Value # DirPlaceholder

\* the entries of a listing that decode to an object the filter accepts
RECURSIVE AcceptedEntries(_, _, _)
AcceptedEntries(msgs, filter, shape) ==
    IF msgs = << >> THEN << >>
    ELSE LET o == StringToObjPtr(msgs[1].Value, msgs[1].Key, shape).obj
         IN  (IF Accepts(filter, o) THEN <<[Key |-> msgs[1].Key, obj |-> o]>>
              ELSE << >>)
             \o AcceptedEntries(Tail(msgs), filter, shape)

\* C10: a successful GenericStore.List(filter) returns, in listing order, the
\* decoded objects the filter accepts, the cache then maps the path of each to
\* it, and the cache gains no other entry and loses none; on the scenario
\* backend a store whose shape holds identifiers gets one object, "1", cached
\* at /apisix/routes/1.
C10_ListReturnsAndCaches ==
    [][(ret'.op = "List" /\ ret'.err = "")
        => \E acc \in {AcceptedEntries(EtcdV3List(kv, BasePath, TRUE).msgs,
                                        ret'.filter, objType)} :
               /\ Len(ret'.objs) = Len(acc)
               /\ \A j \in 1..Len(acc) :
                     /\ heap'[ret'.objs[j]] = acc[j].obj
                     /\ acc[j].Key \in DOMAIN cache'
                     /\ cache'[acc[j].Key] = ret'.objs[j]
               /\ DOMAIN cache' = DOMAIN cache \cup {acc[j].Key : j \in 1..Len(acc)}
               /\ \A k \in DOMAIN cache :
                     (\A j \in 1..Len(acc) : acc[j].Key # k)
                         => heap'[cache'[k]] = heap[cache[k]]
               /\ (kv = ScenarioBackend /\ cache = EmptyMap /\ ret'.filter = "nil"
                   /\ objType \in {"Route", "Info"})
                     => /\ Len(ret'.objs) = 1
                        /\ heap'[ret'.objs[1]].id = "1"
                        /\ DOMAIN cache' = {Route1}]_vars

\* the scenario of C10 has run
C10_Witness ==
    /\ kv = ScenarioBackend
    /\ ret.op = "List" /\ ret.err = "" /\ ret.filter = "nil"
    /\ Len(ret.objs) = 1 /\ heap[ret.objs[1]].id = "1"
    /\ DOMAIN cache = {Route1}

\* the position of the first entry of a listing that does not decode
FirstUndecodable(msgs, shape) ==
    CHOOSE i \in 1..(Len(msgs) + 1) :
        /\ i <= Len(msgs) => StringToObjPtr(msgs[i].Value, msgs[i].Key, shape).err # ""
        /\ \A j \in 1..(i - 1) :
              StringToObjPtr(msgs[j].Value, msgs[j].Key, shape).err = ""

\* C11: a GenericStore.List that fails returns no objects.  When the entry at
\* position i does not decode, the error is the decode error, the accepted
\* entries before i are cached, and the cache gains no other entry and loses
\* none; when the backend List fails the cached objects are as they were.
C11_DecodeFailureKeepsEarlier ==
    [][(ret'.op = "List" /\ ret'.err # "")
        => /\ ret'.objs = << >>
           /\ \E msgs \in {EtcdV3List(kv, BasePath, TRUE).msgs} :
              \E i \in {FirstUndecodable(msgs, objType)} :
              \E acc \in {AcceptedEntries(SubSeq(msgs, 1, i - 1), ret'.filter,
                                          objType)} :
                  IF ret'.err = "DecodeError"
                  THEN /\ i <= Len(msgs)
                       /\ DOMAIN cache' =
                             DOMAIN cache \cup {acc[j].Key : j \in 1..Len(acc)}
                       /\ \A j \in 1..Len(acc) :
                             heap'[cache'[acc[j].Key]] = acc[j].obj
                       /\ \A k \in DOMAIN cache :
                             (\A j \in 1..Len(acc) : acc[j].Key # k)
                                 => heap'[cache'[k]] = heap[cache[k]]
                  ELSE /\ ret'.err \in {"BackendError", "NotFound"}
                       /\ CachedObjects(heap', cache') = CachedObjects(heap, cache)]_vars

\* a List has failed at its second entry of three: the first is cached, the
\* third is not
C11_Witness ==
    /\ ret.op = "List" /\ ret.err = "DecodeError" /\ ret.filter = "nil"
    /\ DOMAIN kv = {BasePath, Route1, Route2}
    /\ kv[Route1] = BadJson
    /\ kv[Route2] \notin {BadJson, DirPlaceholder}
    /\ DOMAIN cache = {BasePath}
    /\ ret.objs = << >>

-----------------------------------------------------------------------------
(* Properties of the backend client. *)

\* the keys of the backend under a prefix
Under(store, prefix) == {k \in DOMAIN store : IsPrefix(prefix, k)}

\* a call the backend answered
Answered(r) == r.err # "BackendError"

\* C12: a Create or an Update that succeeds leaves the value at its path and
\* changes no other; a Get the backend answers returns NotFound exactly when
\* the path holds no value and otherwise the value it holds, so the value last
\* written and NotFound after a Delete; a Delete the backend answers returns
\* NotFound exactly when the path holds no value and otherwise removes that
\* path only; List and DeletePrefix return NotFound when no key under the
\* prefix holds a value, and DeletePrefix otherwise removes those keys only.
C12_NotFoundIffNoValue ==
    [][/\ (ret'.op \in {"EtcdCreate", "EtcdUpdate"} /\ ret'.err = "")
            => kv' = [x \in DOMAIN kv \cup {ret'.key} |->
                         IF x = ret'.key THEN ret'.value ELSE kv[x]]
       /\ (ret'.op = "EtcdGet" /\ Answered(ret'))
            => /\ kv' = kv
               /\ (ret'.err = "NotFound") = (ret'.key \notin DOMAIN kv)
               /\ ret'.err \in {"", "NotFound"}
               /\ ret'.err = "" => ret'.value = kv[ret'.key]
               /\ (ret.op \in {"EtcdCreate", "EtcdUpdate"} /\ ret.err = ""
                   /\ ret.key = ret'.key)
                     => ret'.err = "" /\ ret'.value = ret.value
               /\ (ret.op = "EtcdDelete" /\ ret.err = "" /\ ret.key = ret'.key)
                     => ret'.err = "NotFound"
       /\ (ret'.op = "EtcdDelete" /\ Answered(ret'))
            => /\ (ret'.err = "NotFound") = (ret'.key \notin DOMAIN kv)
               /\ ret'.err \in {"", "NotFound"}
               /\ kv' = [x \in DOMAIN kv \ {ret'.key} |-> kv[x]]
       /\ (ret'.op = "EtcdDeletePrefix" /\ Answered(ret'))
            => /\ Under(kv, ret'.key) = {} => ret'.err = "NotFound"
               /\ kv' = [x \in DOMAIN kv \ Under(kv, ret'.key) |-> kv[x]]
       /\ (ret'.op = "EtcdList" /\ Answered(ret'))
            => /\ Under(kv, ret'.key) = {} => ret'.err = "NotFound"
               /\ kv' = kv]_vars

\* a Delete has removed /apisix/routes/1 and left /apisix/routes/10
C12_Witness ==
    /\ ret.op = "EtcdDelete" /\ ret.err = "" /\ ret.key = Route1
    /\ DOMAIN kv = {Route10}

\* C20: an EtcdV3.List the backend answers returns NotFound exactly when no key
\* under the prefix holds a value; when the only key under the prefix holds the
\* Directory Placeholder it returns an empty sequence and no error, and
\* GenericStore.List then returns no object and no error and leaves the cache
\* as it is.
C20_NotFoundIffNoKey ==
    [][/\ (ret'.op = "EtcdList" /\ Answered(ret'))
            => /\ (ret'.err = "NotFound") = (Under(kv, ret'.key) = {})
               /\ ret'.err \in {"", "NotFound"}
               /\ (\E k \in DOMAIN kv :
                       Under(kv, ret'.key) = {k} /\ kv[k] = DirPlaceholder)
                     => ret'.err = "" /\ ret'.msgs = << >>
       /\ (ret'.op = "List" /\ Answered(ret')
           /\ \E k \in DOMAIN kv :
                 Under(kv, BasePath) = {k} /\ kv[k] = DirPlaceholder)
            => /\ ret'.err = ""
               /\ ret'.objs = << >>
               /\ cache' = cache
               /\ CachedObjects(heap', cache') = CachedObjects(heap, cache)]_vars

\* a List over a backend holding the placeholder only has returned nothing and
\* kept the entry cached by an earlier List
C20_Witness ==
    /\ ret.op = "List" /\ ret.err = "" /\ ret.objs = << >>
    /\ DOMAIN kv = {BasePath} /\ kv[BasePath] = DirPlaceholder
    /\ DOMAIN cache = {Route1}

-----------------------------------------------------------------------------
(* Properties of concurrent callers. *)

\* every call that began has returned
Quiescent == \A t \in Running : calls[t].pc = "returned"

\* the Store and Delete calls
CacheCalls == {t \in Running : calls[t].op \in {"Store", "Delete"}}

\* the orders of the Store and Delete calls in which no call comes before a
\* call that had returned when it began
Orders ==
    {o \in [1..Cardinality(CacheCalls) -> CacheCalls] :
        /\ \A i, j \in DOMAIN o : i # j => o[i] # o[j]
        /\ \A i, j \in DOMAIN o : i < j => o[j] \notin calls[o[i]].after}

\* the calls from position i of the order on, run one after the other on the
\* cache c, return what they returned
RECURSIVE Replays(_, _, _)
Replays(o, i, c) ==
    IF i > Len(o) THEN TRUE
    ELSE LET call == calls[o[i]]
         IN  IF call.op = "Store"
             THEN LET r == Store(c, call.key, call.arg)
                  IN  /\ call.old = <<r.oldObj>>
                      /\ call.existed = r.ok
                      /\ Replays(o, i + 1, r.cache)
             ELSE LET r == Delete(c, call.key)
                  IN  /\ call.old = r.value
                      /\ call.existed = r.loaded
                      /\ Replays(o, i + 1, r.cache)

\* C18 as stated: once concurrent Store and Delete calls on a key have
\* returned, some order of the calls that respects real time gives each call
\* the (previous object, existed) pair it returned; and no two calls report
\* having replaced or removed the same prior entry.
C18_Linearizable ==
    /\ Quiescent => \E o \in Orders : Replays(o, 1, EmptyMap)
    /\ \A t, u \in CacheCalls :
          (t # u /\ calls[t].pc = "returned" /\ calls[u].pc = "returned"
           /\ calls[t].existed /\ calls[u].existed)
              => calls[t].old # calls[u].old

\* C19 as stated, for UpdateNodes calls on an object a Store has cached: once
\* all calls have returned, every backend Update having succeeded, the backend
\* holds at the path the encoding of the object cached at the path.
C19_CacheBackendAgree ==
    (/\ Quiescent
     /\ Len(calls) > 1
     /\ calls[1].op = "Store"
     /\ \A t \in Running \ {1} : calls[t].op = "UpdateNodes" /\ calls[t].err = "")
        => /\ SharedKey \in DOMAIN cache
           /\ SharedKey \in DOMAIN kv
           /\ kv[SharedKey] = Marshal(heap[cache[SharedKey]]).text

-----------------------------------------------------------------------------
(* Properties of decoding. *)

\* C15: StringToObjPtr(raw, path) on a text that does not decode returns an
\* error and no object; on a text that decodes, for a shape holding an
\* identifier, the object's identifier is the one in the text when the text has
\* one, else the identifier derived from the path, which is either empty or the
\* last segment of the path.
C15_IdentifierBackfill ==
    [][ret'.op = "StringToObjPtr"
        => \E p \in {ParseJson(ret'.value)} :
           \E id \in {FromatKey(ret'.key, Prefix)} :
               IF ~p.ok
               THEN ret'.err = "DecodeError" /\ ret'.objs = << >>
               ELSE /\ ret'.err = ""
                    /\ Len(ret'.objs) = 1
                    /\ id # "" => id = ret'.key[Len(ret'.key)]
                    /\ IsBaseInfoSetter(ZeroObject(objType))
                          => heap'[ret'.objs[1]].id =
                                IF p.doc.id # "" THEN p.doc.id ELSE id]_vars

\* a text with no identifier decoded at /apisix/routes/2 got the identifier 2
C15_Witness ==
    /\ ret.op = "StringToObjPtr" /\ ret.err = ""
    /\ ret.key = Route2
    /\ ParseJson(ret.value).doc.id = ""
    /\ heap[ret.objs[1]].id = "2"

-----------------------------------------------------------------------------
(* Properties of the whole store. *)

\* C13: a step that removes a key from the cache is a Delete call removing its
\* key; Watch, Unwatch and every step of the delivery of a Change Event leave
\* the cache and its objects as they are; a List that succeeds keeps, with its
\* object, every cached entry whose path the backend no longer holds.
C13_OnlyDeleteShrinks ==
    [][/\ DOMAIN cache \subseteq DOMAIN cache'
          \/ /\ ret'.op = "Delete" /\ ret'.existed
             /\ DOMAIN cache \ DOMAIN cache' = {ret'.key}
       /\ (subs' # subs \/ cancel' # cancel \/ panicked' # panicked)
             => cache' = cache /\ heap' = heap
       /\ (ret'.op = "List" /\ ret'.err = "")
             => \A k \in DOMAIN cache \ DOMAIN kv :
                   k \in DOMAIN cache' /\ heap'[cache'[k]] = heap[cache[k]]]_vars

\* a Delete item for /apisix/routes/1 has been received and a List has run
\* after the backend lost that path: the entry is still cached
C13_Witness ==
    /\ ret.op = "List" /\ ret.err = ""
    /\ Route1 \notin DOMAIN kv
    /\ Route1 \in DOMAIN cache
    /\ \E i \in Subscriptions :
          /\ subs[i].ctxDone
          /\ \E j \in 1..Len(subs[i].received) :
                \E n \in 1..Len(subs[i].received[j].Events) :
                    /\ subs[i].received[j].Events[n].Type = EventDelete
                    /\ subs[i].received[j].Events[n].Key = Route1

\* C14 as stated: no call on a constructed store panics, in any order of the
\* calls.
C14_NoCallPanics == ~panicked

-----------------------------------------------------------------------------
(* Properties of the forwarding task. *)

\* C16: the returned sequence is closed only when the backend subscription has
\* ended, its channel is drained and the Change Event of every batch emitted is
\* received or waiting on the sequence; the step that closes it is taken by a
\* task at the head of its loop; once closed the task is done for good, so it
\* closes no second time, and nothing more is put on the sequence.  Whatever
\* the consumer and the scheduler do.
C16_ClosedOnceAfterEnd ==
    /\ [](\A i \in Subscriptions :
             subs[i].chClosed
                => /\ subs[i].chanEnded
                   /\ subs[i].eventChan = << >>
                   /\ subs[i].held = << >>
                   /\ subs[i].pc = "done"
                   /\ subs[i].received \o subs[i].ch = ForwardAll(subs[i].emitted))
    /\ [][\A i \in Subscriptions :
             /\ subs[i].chClosed
                   => /\ subs'[i].chClosed /\ subs'[i].pc = "done"
                      /\ subs'[i].received \o subs'[i].ch
                            = subs[i].received \o subs[i].ch
             /\ (subs'[i].chClosed /\ ~subs[i].chClosed)
                   => subs[i].chanEnded /\ subs[i].pc = "range"]_vars

\* a watch that delivered two batches has been cancelled and its sequence
\* closed, the second Change Event still waiting on it
C16_Witness ==
    /\ subs[1].chClosed /\ subs[1].ctxDone
    /\ Len(subs[1].emitted) = 2
    /\ Len(subs[1].received) = 1
    /\ Len(subs[1].ch) = 1

\* the notification is not a placeholder and StoreEvent.Add accepts it
Accepted(ev) ==
    /\ ev.Value # DirPlaceholder
    /\ ~StoreEventAdd(NewStoreEvent(FALSE), EventType(ev.Type), ev.Key, ev.Value).err

\* the Change Event a batch is to become
Expected(batch) ==
    LET kept == SelectSeq(batch.Events, Accepted)
    IN  [Canceled |-> batch.Canceled,
         Events   |-> [n \in 1..Len(kept) |->
                         [Type  |-> IF kept[n].Type = "PUT" THEN EventAdd
                                    ELSE EventDelete,
                          Key   |-> kept[n].Key,
                          Value |-> kept[n].Value]]]

\* C17: the Change Event of a batch has the batch's cancelled indicator and, in
\* the batch's order, one item for every notification that is not a placeholder
\* and that StoreEvent.Add accepts, Add for a put and Delete for a delete: an
\* item that is refused is left out and the items after it are not.
C17_ItemsOfBatch ==
    \A i \in Subscriptions :
        \A j \in 1..Len(Forwarded(subs[i])) :
            Forwarded(subs[i])[j] = Expected(subs[i].emitted[j])

\* a cancelled batch of a malformed item and a put has been delivered as one
\* Add with the cancellation flag set
C17_Witness ==
    /\ subs[1].emitted = <<[Canceled |-> TRUE, Events |-> <<Unknown, PutReal>>]>>
    /\ Len(subs[1].received) = 1
    /\ subs[1].received[1].Canceled
    /\ subs[1].received[1].Events =
          <<[Type |-> EventAdd, Key |-> Route2, Value |-> PutReal.Value]>>

====
